---- MODULE Spec2Model ----
(***************************************************************************)
(* A model of feedi's sync and ranking engine: the upsert store            *)
(* (tasks.upsert_entries), the per-feed sync tasks and their batch         *)
(* orchestrator (tasks.sync_all_feeds), the frequency ranker               *)
(* (tasks.set_frequency_ranks), the page queries                           *)
(* (models.Entry.select_page_chronologically, select_page_by_frequency)    *)
(* and the parser-based sync (parser.sync_feed).                           *)
(*                                                                         *)
(* Timestamps are natural numbers; 0 stands for NULL / None.               *)
(***************************************************************************)
EXTENDS Integers, Sequences, FiniteSets

\* ------------------------------------------------------------------ bounds
MaxBatch == 2        \* entries per batch handed to upsert_entries
MaxTime == 2         \* the clock runs 1..MaxTime
MaxFetched == 1      \* entries a source delivers to one sync task
MaxUserOps == 1      \* marker changes the user makes
Cooldown == 1        \* RSS_SKIP_RECENTLY_UPDATED_MINUTES, in clock ticks
MaxCount == 310      \* entry counts handed to the rank thresholds
MaxRows == 3         \* rows of a stored entries table that is queried
MaxStamp == 3        \* remote_updated of a stored row runs 1..MaxStamp
MaxLimit == 2        \* page sizes run 1..MaxLimit
MaxBulk == 45        \* entries of a feed that posts often
MaxFeedEntries == 3  \* entries of a fetched feed (parser.sync_feed)
MaxPinnedRows == 2   \* rows of a table select_pinned is called on

Procs == {1, 2}      \* concurrent tasks
Feeds == {1, 2}      \* feed ids
FeedIds == {1, 2, 3} \* the rows of the feeds table
RemoteIds == {1, 2}  \* remote ids a source delivers
Titles == {1, 2}     \* versions of an entry's content
NULL == 0

Markers == {"deleted", "favorited", "pinned"}

VARIABLES
  now,        \* the wall clock (datetime.utcnow())
  entries,    \* the committed rows of the entries table, as readers see them
  lock,       \* the process holding sqlite's write lock (0: nobody)
  pc,         \* pc[p]: where process p is in its task
  pfeed,      \* pfeed[p]: the feed_id argument of p's upsert_entries call
  utcnow,     \* utcnow[p]: the utcnow p read when upsert_entries started
  done,       \* done[p]: the remote ids p has executed an upsert for, in order
  txn,        \* txn[p]: p's executed but not yet committed writes
  userOps,    \* how many marker changes the user has made
  feeds,      \* the committed rows of the feeds table, by feed id
  local,      \* local[p]: the locals of p's sync task (fetch arguments and result)
  netCalls,   \* netCalls[f]: the network fetches made for feed f
  orch,       \* the sync_all_feeds run: its position and the tasks it dispatched
  ranker,     \* the set_frequency_ranks run: its position and the ranks it holds
  pager,      \* a client paging through select_page_chronologically
  probe       \* the argument and the result of a pure function under check

storeVars == <<entries, lock, pc, pfeed, utcnow, done, txn>>
syncVars == <<feeds, local, netCalls, orch>>
queryVars == <<ranker, pager, probe>>
vars == <<now, entries, lock, pc, pfeed, utcnow, done, txn, userOps,
          feeds, local, netCalls, orch, ranker, pager, probe>>

\* ------------------------------------------------------- the entries table

\* A canonical entry as the parser produces it: the source-derived fields
\* (title stands for every content field) and no marker.
SourceEntries ==
  {[remote_id |-> i, title |-> v, username |-> 1, remote_updated |-> v, marks |-> <<>>] :
     i \in RemoteIds, v \in Titles}

\* A values dict that also sets one marker column.
MarkedEntries ==
  {[e EXCEPT !.marks = ms] :
     e \in SourceEntries, ms \in {[favorited |-> NULL], [pinned |-> 1]}}

\* The id a new row gets: sqlite's rowid, one more than the largest.
NextEntryId(tbl) ==
  IF tbl = {} THEN 1
  ELSE (CHOOSE i \in {r.id : r \in tbl} : \A r \in tbl : r.id <= i) + 1

\* The value column m gets from a values dict, or dflt when the dict lacks it.
ColumnValue(values, m, dflt) ==
  IF m \in DOMAIN values.marks THEN values.marks[m] ELSE dflt

InsertedRow(tbl, feed_id, values, stamp) ==
  [id |-> NextEntryId(tbl), feed_id |-> feed_id, remote_id |-> values.remote_id,
   title |-> values.title, username |-> values.username,
   remote_updated |-> values.remote_updated,
   updated |-> stamp,
   deleted |-> ColumnValue(values, "deleted", NULL),
   favorited |-> ColumnValue(values, "favorited", NULL),
   pinned |-> ColumnValue(values, "pinned", NULL)]

UpdatedRow(r, feed_id, values, stamp) ==
  [r EXCEPT !.feed_id = feed_id, !.remote_id = values.remote_id,
            !.title = values.title, !.username = values.username,
            !.remote_updated = values.remote_updated,
            !.updated = stamp,
            !.deleted = ColumnValue(values, "deleted", r.deleted),
            !.favorited = ColumnValue(values, "favorited", r.favorited),
            !.pinned = ColumnValue(values, "pinned", r.pinned)]

\* Mutants of the upsert statement.
UpsertPlainInsert(tbl, feed_id, values, stamp) ==
  tbl \cup {InsertedRow(tbl, feed_id, values, stamp)}

UpsertDoNothing(tbl, feed_id, values, stamp) ==
  IF \E r \in tbl : r.feed_id = feed_id /\ r.remote_id = values.remote_id
  THEN tbl
  ELSE tbl \cup {InsertedRow(tbl, feed_id, values, stamp)}

UpsertReplace(tbl, feed_id, values, stamp) ==
  LET hit == {r \in tbl : r.feed_id = feed_id /\ r.remote_id = values.remote_id}
  IN  (tbl \ hit) \cup
      {[InsertedRow(tbl, feed_id, values, stamp) EXCEPT !.id = r.id] : r \in hit}
      \cup (IF hit = {} THEN {InsertedRow(tbl, feed_id, values, stamp)} ELSE {})

UpsertByRemoteId(tbl, feed_id, values, stamp) ==
  LET hit == {r \in tbl : r.remote_id = values.remote_id}
  IN  IF hit = {}
      THEN tbl \cup {InsertedRow(tbl, feed_id, values, stamp)}
      ELSE (tbl \ hit) \cup {UpdatedRow(r, feed_id, values, stamp) : r \in hit}

\* INSERT ... ON CONFLICT (feed_id, remote_id) DO UPDATE SET <values>:
\* the row with the key gets the columns the values dict holds, and only
\* those; without such a row a new one is inserted.
UpsertRow(tbl, feed_id, values, stamp) ==
  LET hit == {r \in tbl : r.feed_id = feed_id /\ r.remote_id = values.remote_id}
  IN  IF hit = {}
      THEN tbl \cup {InsertedRow(tbl, feed_id, values, stamp)}
      ELSE (tbl \ hit) \cup {UpdatedRow(r, feed_id, values, stamp) : r \in hit}

\* The table after a transaction's writes, applied in order.
RECURSIVE ApplyWrites(_, _)
ApplyWrites(tbl, ws) ==
  IF ws = <<>> THEN tbl
  ELSE ApplyWrites(UpsertRow(tbl, Head(ws).feed_id, Head(ws).values, Head(ws).stamp),
                   Tail(ws))

\* ---------------------------------------------------------- upsert_entries

CommitAfterLoop == FALSE

\* The commit is inside the loop: one commit per entry.
CommitInsideLoop == TRUE

\* upsert_entries(feed_id, ...) is called; it reads utcnow once.
UpsertStart(p, f) ==
  /\ pc[p] = "idle"
  /\ pc' = [pc EXCEPT ![p] = "loop"]
  /\ pfeed' = [pfeed EXCEPT ![p] = f]
  /\ utcnow' = [utcnow EXCEPT ![p] = now]
  /\ UNCHANGED <<now, entries, lock, done, txn, userOps, syncVars, queryVars>>

\* One iteration's db.session.execute(insert ... on_conflict_do_update): the
\* statement takes sqlite's write lock, which p keeps until it commits.
UpsertExecute(p, values) ==
  /\ pc[p] = "loop"
  /\ Len(done[p]) < MaxBatch
  /\ lock \in {0, p}
  /\ lock' = p
  /\ txn' = [txn EXCEPT ![p] = Append(@, [feed_id |-> pfeed[p], values |-> values,
                                          stamp |-> utcnow[p]])]
  /\ done' = [done EXCEPT ![p] = Append(@, values.remote_id)]
  /\ pc' = [pc EXCEPT ![p] = IF CommitInsideLoop THEN "commit" ELSE "loop"]
  /\ UNCHANGED <<now, entries, pfeed, utcnow, userOps, syncVars, queryVars>>

\* db.session.commit(): the pending writes become visible to readers.
UpsertCommit(p) ==
  /\ pc[p] = "commit"
  /\ entries' = ApplyWrites(entries, txn[p])
  /\ txn' = [txn EXCEPT ![p] = <<>>]
  /\ lock' = 0
  /\ pc' = [pc EXCEPT ![p] = "loop"]
  /\ UNCHANGED <<now, pfeed, utcnow, done, userOps, syncVars, queryVars>>

\* The list is exhausted and upsert_entries returns (what is still pending is
\* committed by whoever commits the session next: here, at once).
UpsertReturn(p) ==
  /\ pc[p] = "loop"
  /\ entries' = ApplyWrites(entries, txn[p])
  /\ txn' = [txn EXCEPT ![p] = <<>>]
  /\ lock' = IF lock = p THEN 0 ELSE lock
  /\ pc' = [pc EXCEPT ![p] = "returned"]
  /\ UNCHANGED <<now, pfeed, utcnow, done, userOps, syncVars, queryVars>>

\* The value a call of upsert_entries that returned gave its caller: the
\* function has no return statement, so None, written <<>>; a returned
\* number n would be <<n>>.
UpsertReturnValue(p) == <<>>

\* The process is interrupted (a crash, an exception of the statement or of the
\* commit): its open transaction is rolled back.
UpsertCrash(p) ==
  /\ pc[p] \in {"loop", "commit"}
  /\ txn' = [txn EXCEPT ![p] = <<>>]
  /\ lock' = IF lock = p THEN 0 ELSE lock
  /\ pc' = [pc EXCEPT ![p] = "crashed"]
  /\ UNCHANGED <<now, entries, pfeed, utcnow, done, userOps, syncVars, queryVars>>

\* The user sets or clears a marker of a stored entry (a write of its own).
UserToggle(id, m) ==
  /\ lock = 0
  /\ userOps < MaxUserOps
  /\ userOps' = userOps + 1
  /\ \E r \in entries :
       /\ r.id = id
       /\ entries' = (entries \ {r}) \cup
                     {[r EXCEPT ![m] = IF r[m] = NULL THEN now ELSE NULL]}
  /\ UNCHANGED <<now, lock, pc, pfeed, utcnow, done, txn, syncVars, queryVars>>

Tick ==
  /\ now < MaxTime
  /\ now' = now + 1
  /\ UNCHANGED <<storeVars, userOps, syncVars, queryVars>>

\* ------------------------------------------------------------ the feeds table

\* Feed.type of each configured feed: an RssFeed, a MastodonAccount, and a
\* row of the base class, whose type no sync task handles.
FeedType(f) == CASE f = 1 -> "rss" [] f = 2 -> "mastodon" [] OTHER -> "feed"

\* A feed as created: never fetched, no rank computed.
NewFeed(f) ==
  [type |-> FeedType(f), folder |-> 1, last_fetch |-> NULL, etag |-> NULL,
   modified_header |-> NULL, raw_data |-> NULL, frequency_rank |-> NULL,
   updated |-> 1]

\* json.dumps of the fetched feed data.
JsonDumps(feed_data) == <<"json", feed_data>>

\* What sources.rss.fetch returns beside the entries: the feed data and the
\* cache tokens of the response, either of which the server may omit.
FetchResults ==
  {[feed_data |-> 1, etag |-> 1, modified |-> NULL],
   [feed_data |-> 2, etag |-> NULL, modified |-> 2]}

NoLocals == [args |-> <<>>, result |-> <<>>]

\* The states in which a task has finished, by returning or by raising.
Failed == {"failed", "crashed"}
Terminal == {"returned", "skipped"} \cup Failed

\* ------------------------------------------------------------ sync_rss_feed

RecentlySyncedInverted(feed, t) ==
  feed.last_fetch # NULL /\ t - feed.last_fetch > Cooldown

\* The cooldown test: the feed was fetched, and less than the cooldown ago.
RecentlySynced(feed, t) ==
  feed.last_fetch # NULL /\ t - feed.last_fetch < Cooldown

\* The task loads its feed, reads utcnow and returns at once when the feed
\* was synced recently; otherwise it goes on to fetch.
RssStart(p) ==
  /\ pc[p] = "start"
  /\ feeds[pfeed[p]].type = "rss"
  /\ utcnow' = [utcnow EXCEPT ![p] = now]
  /\ IF RecentlySynced(feeds[pfeed[p]], now)
     THEN /\ pc' = [pc EXCEPT ![p] = "skipped"]
          /\ local' = local
     ELSE /\ pc' = [pc EXCEPT ![p] = "fetch"]
          /\ local' = [local EXCEPT ![p].args =
                         [last_fetch |-> feeds[pfeed[p]].last_fetch,
                          etag |-> feeds[pfeed[p]].etag,
                          modified |-> feeds[pfeed[p]].modified_header]]
  /\ UNCHANGED <<now, entries, lock, pfeed, done, txn, userOps,
                 feeds, netCalls, orch, queryVars>>

\* sources.rss.fetch returns a response.
RssFetch(p, res) ==
  /\ pc[p] = "fetch"
  /\ feeds[pfeed[p]].type = "rss"
  /\ netCalls' = [netCalls EXCEPT ![pfeed[p]] = @ + 1]
  /\ local' = [local EXCEPT ![p].result = res]
  /\ pc' = [pc EXCEPT ![p] = "store"]
  /\ UNCHANGED <<now, entries, lock, pfeed, utcnow, done, txn, userOps,
                 feeds, orch, queryVars>>

RssStoreSkipsFeedRow(p) ==
  /\ pc[p] = "store"
  /\ lock = 0
  /\ utcnow' = [utcnow EXCEPT ![p] = now]
  /\ pc' = [pc EXCEPT ![p] = "loop"]
  /\ UNCHANGED <<now, entries, lock, pfeed, done, txn, userOps,
                 feeds, local, netCalls, orch, queryVars>>

\* The feed row gets the fetch time, the cache tokens and the payload, and is
\* committed (the row's onupdate stamps updated); then upsert_entries starts
\* and reads utcnow.
RssStore(p) ==
  /\ pc[p] = "store"
  /\ lock = 0
  /\ LET old == feeds[pfeed[p]]
         new == [old EXCEPT !.last_fetch = utcnow[p],
                            !.etag = local[p].result.etag,
                            !.modified_header = local[p].result.modified,
                            !.raw_data = JsonDumps(local[p].result.feed_data)]
     IN  feeds' = [feeds EXCEPT ![pfeed[p]] =
                     IF new = old THEN old ELSE [new EXCEPT !.updated = now]]
  /\ utcnow' = [utcnow EXCEPT ![p] = now]
  /\ pc' = [pc EXCEPT ![p] = "loop"]
  /\ UNCHANGED <<now, entries, lock, pfeed, done, txn, userOps,
                 local, netCalls, orch, queryVars>>

\* ------------------------------------------------------- sync_mastodon_feed

MastodonFetchLimit == "MASTODON_FETCH_LIMIT"

LatestEntriesNone(tbl, f) == {}

\* db_feed.entries.order_by(remote_updated.desc()).first(): the rows that
\* query may return (any of the newest), none when the feed has no entry.
LatestEntries(tbl, f) ==
  {r \in tbl : /\ r.feed_id = f
               /\ \A x \in tbl : x.feed_id = f => x.remote_updated <= r.remote_updated}

\* The task loads its feed and its latest entry and chooses the arguments of
\* the fetch.
MastodonStart(p) ==
  /\ pc[p] = "start"
  /\ feeds[pfeed[p]].type = "mastodon"
  /\ IF LatestEntries(entries, pfeed[p]) # {}
     THEN \E latest \in LatestEntries(entries, pfeed[p]) :
            local' = [local EXCEPT ![p].args = [newer_than |-> latest.remote_id]]
     ELSE local' = [local EXCEPT ![p].args = [limit |-> MastodonFetchLimit]]
  /\ pc' = [pc EXCEPT ![p] = "fetch"]
  /\ UNCHANGED <<now, entries, lock, pfeed, utcnow, done, txn, userOps,
                 feeds, netCalls, orch, queryVars>>

\* sources.mastodon.fetch_toots returns; upsert_entries starts and reads utcnow.
MastodonFetch(p) ==
  /\ pc[p] = "fetch"
  /\ feeds[pfeed[p]].type = "mastodon"
  /\ netCalls' = [netCalls EXCEPT ![pfeed[p]] = @ + 1]
  /\ utcnow' = [utcnow EXCEPT ![p] = now]
  /\ pc' = [pc EXCEPT ![p] = "loop"]
  /\ UNCHANGED <<now, entries, lock, pfeed, done, txn, userOps,
                 feeds, local, orch, queryVars>>

FetchFailStampsLastFetch(p) ==
  /\ pc[p] = "fetch"
  /\ netCalls' = [netCalls EXCEPT ![pfeed[p]] = @ + 1]
  /\ pc' = [pc EXCEPT ![p] = "failed"]
  /\ feeds' = [feeds EXCEPT ![pfeed[p]].last_fetch = utcnow[p]]
  /\ UNCHANGED <<now, entries, lock, pfeed, utcnow, done, txn, userOps,
                 local, orch, queryVars>>

\* The fetch of either task raises (network error, timeout, bad payload).
FetchFail(p) ==
  /\ pc[p] = "fetch"
  /\ netCalls' = [netCalls EXCEPT ![pfeed[p]] = @ + 1]
  /\ pc' = [pc EXCEPT ![p] = "failed"]
  /\ UNCHANGED <<now, entries, lock, pfeed, utcnow, done, txn, userOps,
                 feeds, local, orch, queryVars>>

\* ----------------------------------------------------------- sync_all_feeds

\* The process that runs the task of feed f.
TaskOf(f) == f

GetReturnsAtOnce(p) == TRUE

\* task.get() blocks until the task has finished, then returns or raises.
TaskGetReturns(p) == pc[p] \in Terminal

FailureAbortsBatch == FALSE

\* The try / except around task.get(): a task's exception is logged and the
\* loop continues.
FailureHandled == TRUE

\* The feeds are selected.
OrchStart ==
  /\ orch.pc = "idle"
  /\ orch' = [orch EXCEPT !.pc = "dispatch", !.todo = <<1, 2, 3>>]
  /\ UNCHANGED <<now, storeVars, userOps, feeds, local, netCalls, queryVars>>

\* The first loop, for one feed: its task is dispatched by its type; a feed of
\* unknown type is logged and gets none.
OrchDispatch ==
  /\ orch.pc = "dispatch"
  /\ orch.todo # <<>>
  /\ LET f == Head(orch.todo)
         known == feeds[f].type \in {"rss", "mastodon"}
     IN  /\ orch' = [orch EXCEPT !.todo = Tail(@),
                                 !.tasks = IF known THEN Append(@, TaskOf(f)) ELSE @]
         /\ pc' = IF known THEN [pc EXCEPT ![TaskOf(f)] = "start"] ELSE pc
         /\ pfeed' = IF known THEN [pfeed EXCEPT ![TaskOf(f)] = f] ELSE pfeed
  /\ UNCHANGED <<now, entries, lock, utcnow, done, txn, userOps,
                 feeds, local, netCalls, queryVars>>

\* The second loop, for one task: wait for it; its failure is logged.
OrchJoin ==
  /\ orch.pc \in {"dispatch", "join"}
  /\ orch.todo = <<>>
  /\ orch.joined < Len(orch.tasks)
  /\ LET p == orch.tasks[orch.joined + 1]
     IN  /\ TaskGetReturns(p)
         /\ orch' = IF pc[p] \in Failed /\ ~FailureHandled
                    THEN [orch EXCEPT !.pc = "aborted"]
                    ELSE [orch EXCEPT !.pc = "join", !.joined = @ + 1]
  /\ UNCHANGED <<now, storeVars, userOps, feeds, local, netCalls, queryVars>>

\* Both loops are over: sync_all_feeds returns.
OrchReturn ==
  /\ orch.pc \in {"dispatch", "join"}
  /\ orch.todo = <<>>
  /\ orch.joined = Len(orch.tasks)
  /\ orch' = [orch EXCEPT !.pc = "done"]
  /\ UNCHANGED <<now, storeVars, userOps, feeds, local, netCalls, queryVars>>

\* ------------------------------------------------------ set_frequency_ranks

RankWindow == 14     \* days: two_weeks_ago = now - timedelta(days=14)

FrequencyRankNoTier4(count) ==
  IF count <= 2 THEN 1
  ELSE IF count < 5 THEN 2
  ELSE IF count < 15 THEN 3
  ELSE IF count < 45 THEN 3
  ELSE 5

\* The threshold chain of set_frequency_ranks.
FrequencyRank(count) ==
  IF count <= 2 THEN 1
  ELSE IF count < 5 THEN 2
  ELSE IF count < 15 THEN 3
  ELSE IF count < 45 THEN 3
  ELSE IF count < 300 THEN 4
  ELSE 5

RecentCountUnfiltered(tbl, f, cutoff) ==
  Cardinality({r \in tbl : r.feed_id = f})

\* count(Entry.id) of feed f's group: its entries with remote_updated >= cutoff.
RecentCount(tbl, f, cutoff) ==
  Cardinality({r \in tbl : r.feed_id = f /\ r.remote_updated >= cutoff})

\* The rows of the query: the feeds that join at least one recent entry.
RankedFeeds(tbl, cutoff) ==
  {f \in FeedIds : RecentCount(tbl, f, cutoff) > 0}

\* The query runs and the loop sets frequency_rank on each feed it returned,
\* in the session.
RankerQuery ==
  /\ ranker.pc = "idle"
  /\ ranker' = [pc |-> "commit",
                loaded |-> [f \in RankedFeeds(entries, now - RankWindow) |->
                              feeds[f].frequency_rank],
                ranks |-> [f \in RankedFeeds(entries, now - RankWindow) |->
                             FrequencyRank(RecentCount(entries, f, now - RankWindow))]]
  /\ UNCHANGED <<now, storeVars, userOps, syncVars, pager, probe>>

RankerCommitWholeRows ==
  /\ ranker.pc = "commit"
  /\ lock = 0
  /\ feeds' = [f \in FeedIds |->
                 IF f \in DOMAIN ranker.ranks
                 THEN [NewFeed(f) EXCEPT !.frequency_rank = ranker.ranks[f],
                                         !.updated = now]
                 ELSE feeds[f]]
  /\ ranker' = [ranker EXCEPT !.pc = "done"]
  /\ UNCHANGED <<now, storeVars, userOps, local, netCalls, orch, pager, probe>>

\* db.session.commit(): an UPDATE for each feed whose rank the loop changed;
\* the UPDATE stamps the row's updated (onupdate).
RankerCommit ==
  /\ ranker.pc = "commit"
  /\ lock = 0
  /\ feeds' = [f \in FeedIds |->
                 IF f \in DOMAIN ranker.ranks /\ ranker.ranks[f] # ranker.loaded[f]
                 THEN [feeds[f] EXCEPT !.frequency_rank = ranker.ranks[f],
                                       !.updated = now]
                 ELSE feeds[f]]
  /\ ranker' = [ranker EXCEPT !.pc = "done"]
  /\ UNCHANGED <<now, storeVars, userOps, local, netCalls, orch, pager, probe>>

\* The thresholds applied to one count.
RankProbe ==
  /\ probe.rank = NULL
  /\ probe' = [probe EXCEPT !.rank = FrequencyRank(probe.count)]
  /\ UNCHANGED <<now, storeVars, userOps, syncVars, ranker, pager>>

\* ------------------------------------------------------------- Entry queries

\* The filters a query is called with; NULL / FALSE: not given.
NoFilters ==
  [deleted |-> FALSE, favorited |-> FALSE, feed_name |-> NULL, folder |-> NULL,
   username |-> NULL]

\* Entry._filtered_query: the rows that pass every filter given. A feed's
\* name is its id here.
FilteredQuery(tbl, flt) ==
  {r \in tbl :
     /\ IF flt.deleted THEN r.deleted # NULL ELSE r.deleted = NULL
     /\ flt.favorited => r.favorited # NULL
     /\ flt.feed_name # NULL => r.feed_id = flt.feed_name
     /\ flt.folder # NULL => feeds[r.feed_id].folder = flt.folder
     /\ flt.username # NULL => r.username = flt.username}

Min(a, b) == IF a < b THEN a ELSE b

\* Entry.select_page_chronologically: the pages the query may return, each
\* the first `limit` rows of the filtered rows older than the cursor, in
\* descending remote_updated; rows with equal remote_updated come in any order.
ChronologicalPages(tbl, limit, older_than, flt) ==
  LET q == {r \in FilteredQuery(tbl, flt) :
              older_than # NULL => r.remote_updated < older_than}
      k == Min(limit, Cardinality(q))
  IN  {s \in [1..k -> q] :
         /\ \A i, j \in 1..k : i < j =>
              s[i] # s[j] /\ s[i].remote_updated >= s[j].remote_updated
         /\ \A r \in q : (\A i \in 1..k : s[i] # r) =>
              \A i \in 1..k : r.remote_updated <= s[i].remote_updated}

SelectPinnedOldestFirst(tbl, flt) ==
  LET q == {r \in FilteredQuery(tbl, flt) : r.pinned # NULL}
      n == Cardinality(q)
  IN  {s \in [1..n -> q] :
         \A i, j \in 1..n : i < j => s[i] # s[j] /\ s[i].pinned <= s[j].pinned}

\* Entry.select_pinned: the lists the query may return, all the filtered rows
\* with a pinned marker in descending pinned; rows with equal pinned come in
\* any order.
SelectPinned(tbl, flt) ==
  LET q == {r \in FilteredQuery(tbl, flt) : r.pinned # NULL}
      n == Cardinality(q)
  IN  {s \in [1..n -> q] :
         \A i, j \in 1..n : i < j => s[i] # s[j] /\ s[i].pinned >= s[j].pinned}

\* A client asks for the pinned entries with some filters.
PinnedCall(flt) ==
  /\ pager.pc = "idle"
  /\ \E result \in SelectPinned(entries, flt) :
       pager' = [pc |-> "pinned", flt |-> flt, result |-> result]
  /\ UNCHANGED <<now, storeVars, userOps, syncVars, ranker, probe>>

\* A client starts paging with a page size and filters.
PagerStart(limit, flt) ==
  /\ pager.pc = "idle"
  /\ pager' = [pc |-> "paging", limit |-> limit, flt |-> flt,
               older_than |-> NULL, seen |-> <<>>]
  /\ UNCHANGED <<now, storeVars, userOps, syncVars, ranker, probe>>

\* The client asks for the next page, passing as older_than the
\* remote_updated of the last entry it got; an empty page ends the paging.
PagerNext ==
  /\ pager.pc = "paging"
  /\ \E page \in ChronologicalPages(entries, pager.limit, pager.older_than, pager.flt) :
       pager' = IF page = <<>>
                THEN [pager EXCEPT !.pc = "done"]
                ELSE [pager EXCEPT
                        !.seen = @ \o [i \in 1..Len(page) |-> page[i].id],
                        !.older_than = page[Len(page)].remote_updated]
  /\ UNCHANGED <<now, storeVars, userOps, syncVars, ranker, probe>>

\* Feed.freq_bucket: the rank of a feed from its count of recent entries.
freq_bucket(count) ==
  IF count <= 2 THEN 1
  ELSE IF count < 5 THEN 2
  ELSE IF count < 15 THEN 3
  ELSE IF count < 45 THEN 3
  ELSE 5

FreshWindow == 2     \* days: last_48_hours = start_at - timedelta(hours=48)

BucketIgnored(r, start_at) == 0

\* The first ORDER BY term of select_page_by_frequency:
\* (start_at > remote_updated) & (remote_updated < last_48_hours), 0 or 1.
Bucket(r, start_at) ==
  IF start_at > r.remote_updated /\ r.remote_updated < start_at - FreshWindow
  THEN 1 ELSE 0

\* The subquery of select_page_by_frequency: a row (id, rank) for each feed
\* that joins an entry with remote_updated >= two_weeks_ago.
RankSubquery(tbl, two_weeks_ago) ==
  [f \in RankedFeeds(tbl, two_weeks_ago) |->
     freq_bucket(RecentCount(tbl, f, two_weeks_ago))]

PrecedesIgnoringRank(a, b, start_at, rank) ==
  \/ Bucket(a, start_at) < Bucket(b, start_at)
  \/ /\ Bucket(a, start_at) = Bucket(b, start_at)
     /\ a.remote_updated >= b.remote_updated

\* ORDER BY bucket, rank, remote_updated DESC: row a may come before row b.
Precedes(a, b, start_at, rank) ==
  \/ Bucket(a, start_at) < Bucket(b, start_at)
  \/ /\ Bucket(a, start_at) = Bucket(b, start_at)
     /\ \/ rank[a.feed_id] < rank[b.feed_id]
        \/ /\ rank[a.feed_id] = rank[b.feed_id]
           /\ a.remote_updated >= b.remote_updated

\* The ordered rows of select_page_by_frequency: the filtered entries joined
\* with their feed's row of the subquery, in the ORDER BY order; rows equal
\* in every term come in any order.
FrequencyOrderings(tbl, start_at, flt, two_weeks_ago) ==
  LET rank == RankSubquery(tbl, two_weeks_ago)
      q == {r \in FilteredQuery(tbl, flt) : r.feed_id \in DOMAIN rank}
      n == Cardinality(q)
  IN  {s \in [1..n -> q] :
         \A i, j \in 1..n : i < j =>
            s[i] # s[j] /\ Precedes(s[i], s[j], start_at, rank)}

\* The rows of page number `page`: limit rows at offset (page - 1) * limit.
PageOf(ordered, limit, page) ==
  SubSeq(ordered, (page - 1) * limit + 1, Min(page * limit, Len(ordered)))

\* A client opens the frequency-weighted view at the reference instant start_at.
FreqStart(limit, start_at, flt) ==
  /\ pager.pc = "idle"
  /\ pager' = [pc |-> "freq", limit |-> limit, flt |-> flt,
               start_at |-> start_at, page |-> 1, seen |-> <<>>]
  /\ UNCHANGED <<now, storeVars, userOps, syncVars, ranker, probe>>

\* The client asks for the next page number; an empty page ends the paging.
\* The engine returns rows equal in every ORDER BY term in the same order
\* each time the query runs on the same table.
FreqNext ==
  /\ pager.pc = "freq"
  /\ \E ordered \in FrequencyOrderings(entries, pager.start_at, pager.flt,
                                       now - RankWindow) :
       LET items == PageOf(ordered, pager.limit, pager.page)
       IN  /\ SubSeq(ordered, 1, Len(pager.seen)) = pager.seen
           /\ pager' = IF items = <<>>
                       THEN [pager EXCEPT !.pc = "done"]
                       ELSE [pager EXCEPT !.seen = @ \o items, !.page = @ + 1]
  /\ UNCHANGED <<now, storeVars, userOps, syncVars, ranker, probe>>

\* -------------------------------------------------- parser.py: sync_feed
\* The sync of parser.py: one session for the whole batch, committed by
\* sync_all_feeds after the loop. URLs and texts are 1 when present.

UPDATE_AFTER_MINUTES == 5

\* The entries feedparser delivers. A field is FALSE / NULL when the source
\* entry lacks it; icon is the entry's source icon and the answer to its
\* HEAD request; page is the answer to the GET of the entry's link.
CompleteEntry ==
  [link |-> TRUE, summary |-> TRUE, published |-> 1, updated |-> 2,
   icon |-> "ok", thumbnail |-> TRUE, page |-> "image"]

RawEntries ==
  {CompleteEntry,
   [CompleteEntry EXCEPT !.link = FALSE],
   [CompleteEntry EXCEPT !.summary = FALSE],
   [CompleteEntry EXCEPT !.updated = NULL],
   [CompleteEntry EXCEPT !.updated = NULL, !.published = NULL],
   [CompleteEntry EXCEPT !.icon = "raises"],
   [CompleteEntry EXCEPT !.icon = "rejected", !.thumbnail = FALSE, !.page = "raises"],
   [CompleteEntry EXCEPT !.icon = "none", !.thumbnail = FALSE, !.page = "none"],
   [CompleteEntry EXCEPT !.thumbnail = FALSE]}

\* The fetched feed structures: feed['feed']['link'] (absent, of a known
\* aggregator, other), its generator, the feed's url, and whether the feed
\* carries a recent updated_parsed.
FeedData ==
  {[link |-> l, mastodon |-> m, github |-> g, goodreads |-> r, fresh |-> FALSE] :
     l \in {"none", "aggregator", "other"}, m \in BOOLEAN, g \in BOOLEAN,
     r \in BOOLEAN}
  \cup {[link |-> "other", mastodon |-> FALSE, github |-> FALSE,
         goodreads |-> FALSE, fresh |-> TRUE]}

\* The batches of a fetched feed; an entry's id is its position.
RawBatches ==
  UNION {[1..n -> RawEntries] : n \in 0..MaxFeedEntries}

\* BaseParser.__subclasses__(), in definition order.
ParserSubclasses ==
  <<"LinkAggregatorParser", "MastodonUserParser", "GithubFeedParser",
    "GoodreadsFeedParser">>

\* cls.is_compatible(db_feed.url, feed)
IsCompatible(cls, fd) ==
  CASE cls = "LinkAggregatorParser" -> fd.link = "aggregator"
    [] cls = "MastodonUserParser" -> fd.mastodon
    [] cls = "GithubFeedParser" -> fd.github
    [] cls = "GoodreadsFeedParser" -> fd.goodreads

\* The parser class sync_feed picks: the first compatible subclass, or
\* BaseParser.
SelectParser(fd) ==
  LET hits == {i \in 1..Len(ParserSubclasses) : IsCompatible(ParserSubclasses[i], fd)}
  IN  IF hits = {} THEN "BaseParser"
      ELSE ParserSubclasses[CHOOSE i \in hits : \A j \in hits : i <= j]

\* parse_avatar_url raises: the HEAD request of BaseParser fails, or the
\* entry of a GithubFeedParser has no media_thumbnail.
AvatarRaises(cls, e) ==
  IF cls = "GithubFeedParser" THEN ~e.thumbnail ELSE e.icon = "raises"

AvatarUrl(cls, e) ==
  IF cls = "GithubFeedParser" THEN 1
  ELSE IF e.icon = "ok" THEN 1 ELSE NULL

\* parse_media_url raises: no media in the entry and the GET of its link fails.
MediaRaises(cls, e) ==
  /\ cls \notin {"GithubFeedParser", "GoodreadsFeedParser"}
  /\ ~e.thumbnail
  /\ e.page = "raises"

MediaUrl(cls, e) ==
  IF cls \in {"GithubFeedParser", "GoodreadsFeedParser"} THEN NULL
  ELSE IF e.thumbnail \/ e.page = "image" THEN 1 ELSE NULL

\* entry['updated_parsed'] raises KeyError: the entry lacks the key and the
\* entry mapping has no value to answer with. keymapped: the mapping answers
\* a missing updated_parsed with the entry's published_parsed.
UpdatedRaises(e, keymapped) ==
  e.updated = NULL /\ (~keymapped \/ e.published = NULL)

\* parser.parse(entry) raises.
ParseRaises(cls, e, keymapped) ==
  \/ ~e.link \/ ~e.summary
  \/ AvatarRaises(cls, e)
  \/ MediaRaises(cls, e)
  \/ e.published = NULL
  \/ UpdatedRaises(e, keymapped)

\* The values parser.parse(entry) returns for entry number i.
ParseValues(cls, e, i) ==
  [title |-> IF cls = "MastodonUserParser" THEN 2 ELSE 1,
   title_url |-> 1,
   avatar_url |-> AvatarUrl(cls, e),
   username |-> 1,
   body |-> IF cls \in {"GithubFeedParser", "GoodreadsFeedParser"} THEN NULL ELSE 1,
   media_url |-> MediaUrl(cls, e),
   remote_id |-> i,
   remote_created |-> e.published,
   remote_updated |-> IF e.updated # NULL THEN e.updated ELSE e.published]

\* The upsert of sync_feed: on a row with the key every column of values is
\* set; otherwise a row is inserted.
ParsedUpsert(tbl, values) ==
  LET hit == {r \in tbl : r.feed_id = values.feed_id /\ r.remote_id = values.remote_id}
      cols == [c \in DOMAIN values |-> values[c]]
  IN  IF hit = {}
      THEN tbl \cup {[c \in DOMAIN values \cup {"id"} \cup Markers |->
                       IF c = "id" THEN NextEntryId(tbl)
                       ELSE IF c \in Markers THEN NULL ELSE values[c]]}
      ELSE (tbl \ hit) \cup
           {[c \in DOMAIN r |-> IF c \in DOMAIN values THEN values[c] ELSE r[c]] :
              r \in hit}

RECURSIVE ApplyParsed(_, _)
ApplyParsed(tbl, ws) ==
  IF ws = <<>> THEN tbl
  ELSE ApplyParsed(ParsedUpsert(tbl, Head(ws)), Tail(ws))

\* The cooldown test of sync_feed.
RecentlyFetched(feed, t) ==
  feed.last_fetch # NULL /\ t - feed.last_fetch < UPDATE_AFTER_MINUTES

AbortOnError == FALSE

ContinueOnError == TRUE

\* sync_feed up to its loop: the cooldown test, the fetch, the test of the
\* feed's own updated time and the choice of the parser class.
SyncFeedStart(f, fd, batch, keymapped) ==
  /\ pc[1] = "idle"
  /\ pfeed' = [pfeed EXCEPT ![1] = f]
  /\ IF RecentlyFetched(feeds[f], now)
     THEN /\ pc' = [pc EXCEPT ![1] = "skipped"]
          /\ UNCHANGED <<feeds, local, netCalls>>
     ELSE /\ feeds' = [feeds EXCEPT ![f].last_fetch = now]
          /\ netCalls' = [netCalls EXCEPT ![f] = @ + 1]
          /\ IF fd.fresh
             THEN /\ pc' = [pc EXCEPT ![1] = "skipped"]
                  /\ local' = local
             ELSE IF fd.link = "none"
             THEN /\ pc' = [pc EXCEPT ![1] = "failed"]
                  /\ local' = local
             ELSE /\ pc' = [pc EXCEPT ![1] = "parsing"]
                  /\ local' = [local EXCEPT ![1] =
                                 [feed |-> fd, entries |-> batch,
                                  parser_cls |-> SelectParser(fd),
                                  keymapped |-> keymapped, i |-> 1]]
  /\ UNCHANGED <<now, entries, lock, utcnow, done, txn, userOps, orch, queryVars>>

\* One turn of the loop over feed['entries']: the entry is parsed and
\* upserted in the session, or its error is logged and the loop goes on.
SyncFeedEntry ==
  /\ pc[1] = "parsing"
  /\ local[1].i <= Len(local[1].entries)
  /\ LET l == local[1]
         e == l.entries[l.i]
         values == ParseValues(l.parser_cls, e, l.i)
         row == [c \in DOMAIN values \cup {"updated", "feed_id"} |->
                   IF c = "updated" THEN feeds[pfeed[1]].last_fetch
                   ELSE IF c = "feed_id" THEN pfeed[1] ELSE values[c]]
     IN  IF ParseRaises(l.parser_cls, e, l.keymapped)
         THEN IF ContinueOnError
              THEN /\ local' = [local EXCEPT ![1].i = @ + 1]
                   /\ UNCHANGED <<pc, txn>>
              ELSE /\ pc' = [pc EXCEPT ![1] = "failed"]
                   /\ UNCHANGED <<local, txn>>
         ELSE /\ txn' = [txn EXCEPT ![1] = Append(@, row)]
              /\ local' = [local EXCEPT ![1].i = @ + 1]
              /\ pc' = pc
  /\ UNCHANGED <<now, entries, lock, pfeed, utcnow, done, userOps, feeds,
                 netCalls, orch, queryVars>>

\* The loop is over: sync_feed returns.
SyncFeedReturn ==
  /\ pc[1] = "parsing"
  /\ local[1].i > Len(local[1].entries)
  /\ pc' = [pc EXCEPT ![1] = "synced"]
  /\ UNCHANGED <<now, entries, lock, pfeed, utcnow, done, txn, userOps,
                 syncVars, queryVars>>

\* parser.sync_all_feeds: db.session.commit() after the feeds.
SyncAllCommit ==
  /\ pc[1] \in {"synced", "skipped"}
  /\ entries' = ApplyParsed(entries, txn[1])
  /\ txn' = [txn EXCEPT ![1] = <<>>]
  /\ pc' = [pc EXCEPT ![1] = "returned"]
  /\ UNCHANGED <<now, lock, pfeed, utcnow, done, userOps, syncVars, queryVars>>

\* ------------------------------------------------------------ specifications

InitStore ==
  /\ lock = 0
  /\ pc = [p \in Procs |-> "idle"]
  /\ pfeed = [p \in Procs |-> 1]
  /\ utcnow = [p \in Procs |-> 1]
  /\ done = [p \in Procs |-> <<>>]
  /\ txn = [p \in Procs |-> <<>>]
  /\ userOps = 0

InitSyncIdle ==
  /\ local = [p \in Procs |-> NoLocals]
  /\ netCalls = [f \in FeedIds |-> 0]
  /\ orch = [pc |-> "idle", todo |-> <<>>, tasks |-> <<>>, joined |-> 0]

InitQueryIdle ==
  /\ ranker = [pc |-> "idle", loaded |-> <<>>, ranks |-> <<>>]
  /\ pager = [pc |-> "idle"]
  /\ probe = <<>>

Init ==
  /\ now = 1
  /\ entries = {}
  /\ feeds = [f \in FeedIds |-> NewFeed(f)]
  /\ InitStore
  /\ InitSyncIdle
  /\ InitQueryIdle

\* Concurrent callers of upsert_entries, with the entries a source delivers.
Next ==
  \/ \E p \in Procs, f \in Feeds : UpsertStart(p, f)
  \/ \E p \in Procs, v \in SourceEntries : UpsertExecute(p, v)
  \/ \E p \in Procs : UpsertCommit(p)
  \/ \E p \in Procs : UpsertReturn(p)
  \/ \E p \in Procs : UpsertCrash(p)
  \/ Tick

Spec == Init /\ [][Next]_vars

\* One caller of upsert_entries, whose values dicts may set a marker, and the
\* user changing markers in between.
NextMarkers ==
  \/ \E f \in Feeds : UpsertStart(1, f)
  \/ \E v \in SourceEntries \cup MarkedEntries : UpsertExecute(1, v)
  \/ UpsertCommit(1)
  \/ UpsertReturn(1)
  \/ \E r \in entries, m \in Markers : UserToggle(r.id, m)
  \/ Tick

SpecMarkers == Init /\ [][NextMarkers]_vars

\* An entry stored by an earlier sync of feed f.
StoredEntry(f) ==
  [id |-> f, feed_id |-> f, remote_id |-> 1, title |-> 1, username |-> 1,
   remote_updated |-> 1, updated |-> 1,
   deleted |-> NULL, favorited |-> NULL, pinned |-> NULL]

\* The tables of a deployment whose feeds were, or were not, synced before.
InitTables ==
  /\ entries \in {{}, {StoredEntry(f) : f \in Feeds}}
  /\ \E lf \in {NULL, 1} :
       feeds = [f \in FeedIds |->
                  IF FeedType(f) = "rss" /\ lf # NULL
                  THEN [NewFeed(f) EXCEPT !.last_fetch = lf, !.etag = 1,
                                          !.raw_data = JsonDumps(1)]
                  ELSE NewFeed(f)]

\* A batch sync (sync_all_feeds) while the clock runs.
InitSync ==
  /\ now = 1
  /\ InitTables
  /\ InitStore
  /\ InitSyncIdle
  /\ InitQueryIdle

NextSync ==
  \/ OrchStart
  \/ OrchDispatch
  \/ OrchJoin
  \/ OrchReturn
  \/ \E p \in Procs : RssStart(p)
  \/ \E p \in Procs, res \in FetchResults : RssFetch(p, res)
  \/ \E p \in Procs : RssStore(p)
  \/ \E p \in Procs : MastodonStart(p)
  \/ \E p \in Procs : MastodonFetch(p)
  \/ \E p \in Procs : FetchFail(p)
  \/ \E p \in Procs, v \in SourceEntries :
       Len(done[p]) < MaxFetched /\ UpsertExecute(p, v)
  \/ \E p \in Procs : UpsertCommit(p)
  \/ \E p \in Procs : UpsertReturn(p)
  \/ \E p \in Procs : UpsertCrash(p)
  \/ Tick

SpecSync == InitSync /\ [][NextSync]_vars

\* The two sync tasks of a batch, dispatched and running, while the user
\* changes markers of stored entries.
InitResync ==
  /\ now = 1
  /\ InitTables
  /\ lock = 0
  /\ pc = [p \in Procs |-> "start"]
  /\ pfeed = [p \in Procs |-> p]
  /\ utcnow = [p \in Procs |-> 1]
  /\ done = [p \in Procs |-> <<>>]
  /\ txn = [p \in Procs |-> <<>>]
  /\ userOps = 0
  /\ local = [p \in Procs |-> NoLocals]
  /\ netCalls = [f \in FeedIds |-> 0]
  /\ orch = [pc |-> "join", todo |-> <<>>, tasks |-> <<1, 2>>, joined |-> 0]
  /\ InitQueryIdle

NextResync ==
  \/ \E p \in Procs : RssStart(p)
  \/ \E p \in Procs, res \in FetchResults : RssFetch(p, res)
  \/ \E p \in Procs : RssStore(p)
  \/ \E p \in Procs : MastodonStart(p)
  \/ \E p \in Procs : MastodonFetch(p)
  \/ \E p \in Procs : FetchFail(p)
  \/ \E p \in Procs, v \in SourceEntries :
       Len(done[p]) < MaxFetched /\ UpsertExecute(p, v)
  \/ \E p \in Procs : UpsertCommit(p)
  \/ \E p \in Procs : UpsertReturn(p)
  \/ \E p \in Procs : UpsertCrash(p)
  \/ \E r \in entries, m \in Markers : UserToggle(r.id, m)

SpecResync == InitResync /\ [][NextResync]_vars

\* A stored entry of a table that is queried.
QueryRow(i, f, stamp, del) ==
  [id |-> i, feed_id |-> f, remote_id |-> i, title |-> 1, username |-> 1,
   remote_updated |-> stamp, updated |-> 1,
   deleted |-> del, favorited |-> NULL, pinned |-> NULL]

\* The stored tables of up to MaxRows entries.
QueryTables(dels) ==
  UNION {{{QueryRow(i, c[i][1], c[i][2], c[i][3]) : i \in 1..n} :
            c \in [1..n -> Feeds \X (1..MaxStamp) \X dels]} : n \in 0..MaxRows}

\* The rank thresholds, applied to every count up to MaxCount.
InitRank ==
  /\ now = 1
  /\ entries = {}
  /\ feeds = [f \in FeedIds |-> NewFeed(f)]
  /\ InitStore
  /\ InitSyncIdle
  /\ ranker = [pc |-> "idle", loaded |-> <<>>, ranks |-> <<>>]
  /\ pager = [pc |-> "idle"]
  /\ \E n \in 0..MaxCount : probe = [count |-> n, rank |-> NULL]

NextRank == RankProbe

SpecRank == InitRank /\ [][NextRank]_vars

\* One run of set_frequency_ranks over a stored table, the clock in days:
\* entries stamped 1 are older than two weeks, the others are not.
InitRanker ==
  /\ now = RankWindow + 2
  /\ entries \in QueryTables({NULL})
  /\ \E prev \in [FeedIds -> {NULL, 5}] :
       feeds = [f \in FeedIds |-> [NewFeed(f) EXCEPT !.frequency_rank = prev[f]]]
  /\ InitStore
  /\ InitSyncIdle
  /\ InitQueryIdle

NextRanker == RankerQuery \/ RankerCommit

SpecRanker == InitRanker /\ [][NextRanker]_vars

\* The filters the paging client uses.
PageFilters ==
  {NoFilters, [NoFilters EXCEPT !.deleted = TRUE], [NoFilters EXCEPT !.feed_name = 1]}

\* A client pages through a stored table.
InitPage ==
  /\ now = 1
  /\ entries \in QueryTables({NULL, 1})
  /\ feeds = [f \in FeedIds |-> NewFeed(f)]
  /\ InitStore
  /\ InitSyncIdle
  /\ InitQueryIdle

NextPage ==
  \/ \E limit \in 1..MaxLimit, flt \in PageFilters : PagerStart(limit, flt)
  \/ PagerNext

SpecPage == InitPage /\ [][NextPage]_vars

\* The days a stored row of a queried table was updated: more than two weeks
\* ago, within two weeks, within the last two days.
FreqDays == {1, RankWindow - 4, RankWindow + 1}

\* Already deleted entries of feed f, updated in the last two weeks.
BulkRows(f) ==
  {QueryRow(100 + i, f, RankWindow + 1, 1) : i \in 1..MaxBulk}

\* The stored tables the frequency-weighted view is opened on; feed 2 may be
\* a feed that posts often.
FreqTables ==
  {t \cup bulk :
     t \in UNION {{{QueryRow(i, c[i][1], c[i][2], NULL) : i \in 1..n} :
                     c \in [1..n -> Feeds \X FreqDays]} : n \in 0..MaxRows},
     bulk \in {{}, BulkRows(2)}}

FreqFilters == {NoFilters, [NoFilters EXCEPT !.feed_name = 1]}

\* A client pages through the frequency-weighted view of a stored table.
InitFreq ==
  /\ now = RankWindow + 2
  /\ entries \in FreqTables
  /\ feeds = [f \in FeedIds |-> NewFeed(f)]
  /\ InitStore
  /\ InitSyncIdle
  /\ InitQueryIdle

NextFreq ==
  \/ \E limit \in 1..MaxLimit, start_at \in {now - 4, now}, flt \in FreqFilters :
       FreqStart(limit, start_at, flt)
  \/ FreqNext

SpecFreq == InitFreq /\ [][NextFreq]_vars

\* One feed synced by parser.sync_feed: fetched before or not, the clock
\* inside or past the cooldown.
InitParser ==
  /\ now \in {1, UPDATE_AFTER_MINUTES + 1}
  /\ entries = {}
  /\ \E lf \in {NULL, 1} :
       feeds = [f \in FeedIds |-> [NewFeed(f) EXCEPT !.last_fetch = lf]]
  /\ InitStore
  /\ InitSyncIdle
  /\ InitQueryIdle

NextParser ==
  \/ /\ pc[1] = "idle"
     /\ \E fd \in FeedData, batch \in RawBatches, keymapped \in BOOLEAN :
          SyncFeedStart(1, fd, batch, keymapped)
  \/ SyncFeedEntry
  \/ SyncFeedReturn
  \/ SyncAllCommit

SpecParser == InitParser /\ [][NextParser]_vars

\* The task of the mastodon feed, started on a stored table.
InitMastodon ==
  /\ now = 1
  /\ entries \in QueryTables({NULL})
  /\ feeds = [f \in FeedIds |-> NewFeed(f)]
  /\ lock = 0
  /\ pc = [p \in Procs |-> IF FeedType(p) = "mastodon" THEN "start" ELSE "idle"]
  /\ pfeed = [p \in Procs |-> p]
  /\ utcnow = [p \in Procs |-> 1]
  /\ done = [p \in Procs |-> <<>>]
  /\ txn = [p \in Procs |-> <<>>]
  /\ userOps = 0
  /\ InitSyncIdle
  /\ InitQueryIdle

NextMastodon ==
  \/ \E p \in Procs : MastodonStart(p)
  \/ \E p \in Procs : MastodonFetch(p)
  \/ \E p \in Procs : FetchFail(p)
  \/ \E p \in Procs : UpsertReturn(p)

SpecMastodon == InitMastodon /\ [][NextMastodon]_vars

\* The ranker and the sync task of the rss feed, started at the same time on
\* a table in which the feed has recent entries.
InitRace ==
  /\ now = RankWindow + 2
  /\ entries \in {t \in QueryTables({NULL}) :
                    \E r \in t : r.feed_id = 1 /\ r.remote_updated >= 2}
  /\ \E prev \in {NULL, 5}, lf \in {NULL, 1} :
       feeds = [f \in FeedIds |->
                  [NewFeed(f) EXCEPT !.frequency_rank = prev,
                                     !.last_fetch = IF FeedType(f) = "rss" THEN lf
                                                    ELSE NULL]]
  /\ lock = 0
  /\ pc = [p \in Procs |-> IF FeedType(p) = "rss" THEN "start" ELSE "idle"]
  /\ pfeed = [p \in Procs |-> p]
  /\ utcnow = [p \in Procs |-> 1]
  /\ done = [p \in Procs |-> <<>>]
  /\ txn = [p \in Procs |-> <<>>]
  /\ userOps = 0
  /\ InitSyncIdle
  /\ InitQueryIdle

NextRace ==
  \/ \E p \in Procs : RssStart(p)
  \/ \E p \in Procs, res \in FetchResults : RssFetch(p, res)
  \/ \E p \in Procs : RssStore(p)
  \/ \E p \in Procs : FetchFail(p)
  \/ \E p \in Procs : UpsertReturn(p)
  \/ RankerQuery
  \/ RankerCommit

SpecRace == InitRace /\ [][NextRace]_vars

\* Two sync_rss_feed tasks of the same feed, of two batches that overlap,
\* running at one instant; the feed was never fetched, or a cooldown ago.
InitOverlap ==
  /\ now = Cooldown + 1
  /\ entries = {}
  /\ \E lf \in {NULL, 1} :
       feeds = [f \in FeedIds |->
                  IF FeedType(f) = "rss"
                  THEN [NewFeed(f) EXCEPT !.last_fetch = lf]
                  ELSE NewFeed(f)]
  /\ lock = 0
  /\ pc = [p \in Procs |-> "start"]
  /\ pfeed = [p \in Procs |-> 1]
  /\ utcnow = [p \in Procs |-> 1]
  /\ done = [p \in Procs |-> <<>>]
  /\ txn = [p \in Procs |-> <<>>]
  /\ userOps = 0
  /\ InitSyncIdle
  /\ InitQueryIdle

NextOverlap ==
  \/ \E p \in Procs : RssStart(p)
  \/ \E p \in Procs, res \in FetchResults : RssFetch(p, res)
  \/ \E p \in Procs : RssStore(p)
  \/ \E p \in Procs : FetchFail(p)
  \/ \E p \in Procs : UpsertReturn(p)

SpecOverlap == InitOverlap /\ [][NextOverlap]_vars

\* The markers and the author of a stored row of a table select_pinned is
\* called on: deleted, favorited, username.
RowKinds ==
  {<<NULL, NULL, 1>>, <<1, NULL, 1>>, <<NULL, 1, 1>>, <<1, 1, 1>>, <<NULL, NULL, 2>>}

\* The stored tables select_pinned is called on: rows of the two feeds in
\* turn, pinned at time 1 or 2 or not pinned.
PinnedTables ==
  UNION {{{[QueryRow(i, ((i - 1) % 2) + 1, 1, c[i][2][1]) EXCEPT
              !.pinned = c[i][1], !.favorited = c[i][2][2],
              !.username = c[i][2][3]] : i \in 1..n} :
            c \in [1..n -> {NULL, 1, 2} \X RowKinds]} : n \in 0..MaxPinnedRows}

\* The filter combinations select_pinned is called with.
PinnedFilters ==
  [deleted : BOOLEAN, favorited : BOOLEAN, feed_name : {NULL, 1},
   folder : {NULL, 2}, username : {NULL, 1}]

\* A client asks for the pinned entries of a stored table; feed f is in
\* folder f.
InitPinned ==
  /\ now = 1
  /\ entries \in PinnedTables
  /\ feeds = [f \in FeedIds |-> [NewFeed(f) EXCEPT !.folder = f]]
  /\ InitStore
  /\ InitSyncIdle
  /\ InitQueryIdle

NextPinned == \E flt \in PinnedFilters : PinnedCall(flt)

SpecPinned == InitPinned /\ [][NextPinned]_vars

\* ------------------------------------------------------------------ claims

SameKey(r, feed_id, remote_id) == r.feed_id = feed_id /\ r.remote_id = remote_id

\* C1: in every reachable state the entries table holds at most one row per
\* (feed_id, remote_id), and every key of a batch whose upsert_entries call has
\* returned has a row of its own: entries of different feeds with the same
\* remote_id stay separate rows.
C1_OneRowPerKey ==
  /\ \A r1, r2 \in entries :
        SameKey(r1, r2.feed_id, r2.remote_id) => r1 = r2
  /\ \A p \in Procs :
        pc[p] = "returned" =>
          \A i \in 1..Len(done[p]) :
            \E r \in entries : SameKey(r, pfeed[p], done[p][i])

\* Both callers have committed a batch that repeats a remote id, one per feed.
C1_Witness ==
  /\ pfeed[1] # pfeed[2]
  /\ \A p \in Procs : /\ pc[p] = "returned"
                       /\ Len(done[p]) = 2
                       /\ done[p][1] = 1 /\ done[p][2] = 1
  /\ Cardinality(entries) = 2

\* C2: upserting e2 over a row with the same (feed_id, remote_id) leaves
\* exactly one row for the key, with the values of e2 (and updated = the
\* caller's utcnow), except that each of favorited / pinned / deleted keeps the
\* row's value unless e2 sets it; rows of other keys are untouched.
C2_UpsertOverwrites ==
  [][\A p \in Procs :
       (pc[p] = "commit" /\ pc'[p] = "loop") =>
         LET w == txn[p][Len(txn[p])]
             e2 == w.values
         IN  \A r \in entries :
               IF SameKey(r, w.feed_id, e2.remote_id)
               THEN /\ Cardinality({x \in entries' :
                                     SameKey(x, w.feed_id, e2.remote_id)}) = 1
                    /\ \E x \in entries' :
                         /\ x.id = r.id
                         /\ SameKey(x, w.feed_id, e2.remote_id)
                         /\ x.title = e2.title
                         /\ x.remote_updated = e2.remote_updated
                         /\ x.updated = w.stamp
                         /\ \A m \in Markers :
                              x[m] = IF m \in DOMAIN e2.marks THEN e2.marks[m] ELSE r[m]
               ELSE r \in entries']_vars

\* The caller upserted the same key twice: the row holds the second version
\* and the second write's stamp, and its pinned marker is set.
C2_Witness ==
  /\ pc[1] = "returned"
  /\ Len(done[1]) = 2 /\ done[1][1] = done[1][2]
  /\ \E r \in entries :
       /\ SameKey(r, pfeed[1], done[1][1])
       /\ r.title = 2 /\ r.updated = 2
       /\ r.pinned # NULL

\* C4: a caller interrupted while writing the k-th entry of its batch has its
\* first k-1 entries persisted and visible to readers.
C4_PartialProgress ==
  \A p \in Procs :
    pc[p] = "crashed" =>
      /\ txn[p] = <<>>
      /\ \A i \in 1..(Len(done[p]) - 1) :
           \E r \in entries : SameKey(r, pfeed[p], done[p][i])

\* A caller crashed on its second entry, whose key is not stored, while its
\* first is.
C4_Witness ==
  \E p \in Procs :
    /\ pc[p] = "crashed"
    /\ Len(done[p]) = 2
    /\ \E r \in entries : SameKey(r, pfeed[p], done[p][1])
    /\ ~ \E r \in entries : SameKey(r, pfeed[p], done[p][2])

\* C3: no step of a sync task (sync_rss_feed, sync_mastodon_feed, and the
\* upsert_entries they call) changes a set favorited / pinned / deleted marker
\* of a stored entry: the row is still there with the value the user set.
C3_SyncKeepsMarkers ==
  [][(pc' # pc \/ txn' # txn) =>
       \A r \in entries : \A m \in Markers :
         r[m] # NULL => \E x \in entries' : x.id = r.id /\ x[m] = r[m]]_vars

\* A sync task has re-delivered, as version 2, a stored entry that the user
\* had pinned: the row holds the new version and the pin.
C3_Witness ==
  \E p \in Procs : \E r \in entries :
    /\ pc[p] = "returned"
    /\ done[p] = <<r.remote_id>>
    /\ r.feed_id = pfeed[p]
    /\ r.id = pfeed[p]
    /\ r.title = 2
    /\ r.pinned # NULL

\* C5: a sync_rss_feed run that starts while now - last_fetch < cooldown, for
\* a feed whose last_fetch is set, ends at once as skipped: no network call is
\* made and the feed row (last_fetch, etag, modified_header, raw_data) and all
\* entries are unchanged.
C5_CooldownSkips ==
  [][\A p \in Procs :
       (/\ pc[p] = "start" /\ pc'[p] # "start"
        /\ feeds[pfeed[p]].type = "rss"
        /\ feeds[pfeed[p]].last_fetch # NULL
        /\ now - feeds[pfeed[p]].last_fetch < Cooldown)
       => /\ pc'[p] = "skipped"
          /\ netCalls' = netCalls
          /\ feeds' = feeds
          /\ entries' = entries]_vars

\* The task of a feed fetched at time 1 was skipped: no fetch was made for
\* the feed, whose row is as it was.
C5_Witness ==
  \E p \in Procs :
    /\ pc[p] = "skipped"
    /\ netCalls[pfeed[p]] = 0
    /\ feeds[pfeed[p]].last_fetch = 1
    /\ feeds[pfeed[p]].etag = 1

\* The steps of the batch and of its tasks.
BatchStep ==
  \/ OrchDispatch \/ OrchJoin \/ OrchReturn
  \/ \E p \in Procs : RssStart(p) \/ RssStore(p) \/ MastodonStart(p)
                      \/ MastodonFetch(p) \/ UpsertCommit(p) \/ UpsertReturn(p)
  \/ \E p \in Procs, res \in FetchResults : RssFetch(p, res)

C7_WaitsForTasks ==
  orch.pc = "done" =>
    /\ \A f \in FeedIds :
         feeds[f].type \in {"rss", "mastodon"} =>
           \E i \in 1..Len(orch.tasks) : orch.tasks[i] = TaskOf(f)
    /\ \A i \in 1..Len(orch.tasks) : pc[orch.tasks[i]] \in Terminal

\* The batch is done: both tasks were dispatched, one returned after storing
\* an entry and one failed.
C7_Witness ==
  /\ orch.pc = "done"
  /\ Len(orch.tasks) = 2
  /\ \E p, q \in Procs : pc[p] = "crashed" /\ pc[q] = "returned" /\ Len(done[q]) = 1

\* C8: the ranker maps a count of recent entries to a rank by the thresholds
\* count <= 2 -> 1, < 5 -> 2, < 15 -> 3, < 45 -> 3, < 300 -> 4, >= 300 -> 5;
\* in particular 2 -> 1, 4 -> 2, 14 -> 3, 44 -> 3, 299 -> 4, 300 -> 5.
C8_RankThresholds ==
  probe.rank # NULL =>
    LET n == probe.count
        r == probe.rank
    IN  /\ n <= 2 => r = 1
        /\ (2 < n /\ n < 5) => r = 2
        /\ (5 <= n /\ n < 15) => r = 3
        /\ (15 <= n /\ n < 45) => r = 3
        /\ (45 <= n /\ n < 300) => r = 4
        /\ n >= 300 => r = 5
        /\ n = 2 => r = 1
        /\ n = 4 => r = 2
        /\ n = 14 => r = 3
        /\ n = 44 => r = 3
        /\ n = 299 => r = 4
        /\ n = 300 => r = 5

\* The count 299 was ranked 4.
C8_Witness == probe.count = 299 /\ probe.rank = 4

\* Feed f has no entry with remote_updated in the last RankWindow days.
NoRecentEntry(f) ==
  \A r \in entries : r.feed_id = f => r.remote_updated < now - RankWindow

C10_NoOverlapNoGaps ==
  pager.pc = "done" =>
    LET want == FilteredQuery(entries, pager.flt)
        byId(i) == CHOOSE r \in entries : r.id = i
    IN  /\ \A r \in want : \E i \in 1..Len(pager.seen) : pager.seen[i] = r.id
        /\ \A i, j \in 1..Len(pager.seen) :
             i < j => /\ pager.seen[i] # pager.seen[j]
                      /\ byId(pager.seen[i]).remote_updated >=
                         byId(pager.seen[j]).remote_updated
        /\ \A i \in 1..Len(pager.seen) : byId(pager.seen[i]) \in want

\* The rank the subquery gives the feed of a row on the page.
RankOf(r) == RankSubquery(entries, now - RankWindow)[r.feed_id]

\* Updated within the 48 hours before the reference instant.
Recent(r) ==
  /\ r.remote_updated <= pager.start_at
  /\ r.remote_updated >= pager.start_at - FreshWindow

\* Updated more than 48 hours before the reference instant.
Older(r) == r.remote_updated < pager.start_at - FreshWindow

\* C11: in the frequency-weighted ordering every entry updated within the 48
\* hours before start_at comes before every entry older than that, whatever
\* the ranks of their feeds.
C11_RecentFirst ==
  pager.pc \in {"freq", "done"} /\ "page" \in DOMAIN pager =>
    \A i, j \in 1..Len(pager.seen) :
      Recent(pager.seen[i]) /\ Older(pager.seen[j]) => i < j

\* A recent entry of a rank-5 feed was returned before an older entry of a
\* rank-1 feed.
C11_Witness ==
  /\ pager.pc = "done" /\ "page" \in DOMAIN pager
  /\ \E i, j \in 1..Len(pager.seen) :
       /\ i < j
       /\ Recent(pager.seen[i]) /\ RankOf(pager.seen[i]) = 5
       /\ Older(pager.seen[j]) /\ RankOf(pager.seen[j]) = 1

\* C12: paging through the frequency-weighted view returns every entry that
\* passes the filters exactly once, also the entries of feeds without an
\* entry in the last 14 days.
C12_SurfacesEverything ==
  pager.pc = "done" /\ "page" \in DOMAIN pager =>
    \A r \in FilteredQuery(entries, pager.flt) :
      Cardinality({i \in 1..Len(pager.seen) : pager.seen[i] = r}) = 1

\* C13: within each bucket of the frequency-weighted ordering the entries
\* come by ascending rank of their feed and, for equal rank, by descending
\* remote_updated.
C13_RankThenUpdated ==
  pager.pc \in {"freq", "done"} /\ "page" \in DOMAIN pager =>
    \A i, j \in 1..Len(pager.seen) :
      LET a == pager.seen[i]
          b == pager.seen[j]
      IN  i < j /\ Bucket(a, pager.start_at) = Bucket(b, pager.start_at) =>
            /\ RankOf(a) <= RankOf(b)
            /\ RankOf(a) = RankOf(b) => a.remote_updated >= b.remote_updated

\* In one bucket, an entry of a rank-1 feed was returned before a newer entry
\* of a rank-5 feed, and two entries of one feed newest first.
C13_Witness ==
  /\ pager.pc = "done" /\ "page" \in DOMAIN pager
  /\ \E i, j \in 1..Len(pager.seen) :
       LET a == pager.seen[i]
           b == pager.seen[j]
       IN  /\ i < j /\ Bucket(a, pager.start_at) = Bucket(b, pager.start_at)
           /\ RankOf(a) = 1 /\ RankOf(b) = 5
           /\ a.remote_updated < b.remote_updated
  /\ \E i, j \in 1..Len(pager.seen) :
       /\ i < j /\ pager.seen[i].feed_id = pager.seen[j].feed_id
       /\ pager.seen[i].remote_updated > pager.seen[j].remote_updated


\* sync_feed has run its loop over the fetched entries.
LoopDone == pc[1] \in {"synced", "returned"} /\ "entries" \in DOMAIN local[1]

\* The values upserted for entry number i of the batch, in the session or
\* committed.
Upserted(i) ==
  {txn[1][k] : k \in {k \in 1..Len(txn[1]) : txn[1][k].remote_id = i}}
  \cup {r \in entries : r.feed_id = pfeed[1] /\ r.remote_id = i}

\* C14: a feed whose URL has 'github.com' and 'private.atom' gets
\* GithubFeedParser, whatever else matches, and a feed no variant matches
\* gets BaseParser.
C14_GithubPreferred ==
  "parser_cls" \in DOMAIN local[1] =>
    /\ local[1].feed.github => local[1].parser_cls = "GithubFeedParser"
    /\ (\A i \in 1..Len(ParserSubclasses) :
          ~IsCompatible(ParserSubclasses[i], local[1].feed))
         => local[1].parser_cls = "BaseParser"

\* An entry that has every field the normalizer reads, and whose probes answer.
WellFormed(e) ==
  /\ e.link /\ e.summary /\ e.published # NULL /\ e.updated # NULL
  /\ e.thumbnail /\ e.icon # "raises"

\* C15: a malformed entry fails only itself: the loop of sync_feed is never
\* aborted by an entry, and after it every well-formed entry of the batch,
\* before and after malformed ones, is upserted.
C15_MalformedFailsAlone ==
  /\ pc[1] = "failed" => "entries" \notin DOMAIN local[1]
  /\ LoopDone =>
       \A i \in 1..Len(local[1].entries) :
         WellFormed(local[1].entries[i]) => Upserted(i) # {}

\* A batch of a well-formed entry, one without summary and a well-formed one
\* was synced and committed: the first and the third are stored.
C15_Witness ==
  /\ pc[1] = "returned" /\ "entries" \in DOMAIN local[1]
  /\ Len(local[1].entries) = 3
  /\ WellFormed(local[1].entries[1])
  /\ ~local[1].entries[2].summary
  /\ WellFormed(local[1].entries[3])
  /\ {r.remote_id : r \in entries} = {1, 3}

\* C16: an entry whose avatar HEAD check or meta-tag GET raises is still
\* upserted, with avatar_url / media_url null.
C16_ProbeFailureIsNoImage ==
  LoopDone =>
    \A i \in 1..Len(local[1].entries) :
      LET e == local[1].entries[i]
          cls == local[1].parser_cls
      IN  /\ e.link /\ e.summary /\ e.published # NULL /\ e.updated # NULL
             /\ cls = "BaseParser" /\ e.thumbnail /\ e.icon = "raises"
             => \E v \in Upserted(i) : v.avatar_url = NULL
          /\ e.link /\ e.summary /\ e.published # NULL /\ e.updated # NULL
             /\ cls = "BaseParser" /\ ~e.thumbnail /\ e.page = "raises"
             => \E v \in Upserted(i) : v.media_url = NULL

C17_FeedRowFirst ==
  [][\A p \in Procs :
       /\ pc[p] = "store" /\ pc'[p] # "store" =>
            /\ feeds'[pfeed[p]].last_fetch = utcnow[p]
            /\ feeds'[pfeed[p]].etag = local[p].result.etag
            /\ feeds'[pfeed[p]].modified_header = local[p].result.modified
            /\ feeds'[pfeed[p]].raw_data = JsonDumps(local[p].result.feed_data)
            /\ done[p] = <<>> /\ txn[p] = <<>> /\ entries' = entries
       /\ pc[p] \in {"fetch", "store"} => done'[p] = <<>> /\ txn'[p] = <<>>
       /\ feeds[pfeed[p]].type = "rss" /\ pc[p] = "loop" /\ done'[p] # done[p] =>
            /\ feeds[pfeed[p]].raw_data = JsonDumps(local[p].result.feed_data)
            /\ feeds[pfeed[p]].last_fetch # NULL]_vars

\* The rss task returned after a fetch without entries: the feed row holds
\* the fetch time, the cache tokens and the payload of this fetch.
C17_Witness ==
  \E p \in Procs :
    /\ feeds[pfeed[p]].type = "rss"
    /\ pc[p] = "returned" /\ done[p] = <<>>
    /\ local[p].result = [feed_data |-> 2, etag |-> NULL, modified |-> 2]
    /\ feeds[pfeed[p]].raw_data = JsonDumps(2)
    /\ feeds[pfeed[p]].etag = NULL /\ feeds[pfeed[p]].modified_header = 2
    /\ feeds[pfeed[p]].last_fetch = 2

\* C18: sync_mastodon_feed passes exactly one of newer_than and limit: with a
\* stored entry of the feed, newer_than = the remote id of a latest entry;
\* without one, limit = the configured limit.
C18_FetchMode ==
  \A p \in Procs :
    feeds[pfeed[p]].type = "mastodon" /\ pc[p] \in {"fetch", "loop", "failed"} =>
      IF \E r \in entries : r.feed_id = pfeed[p]
      THEN /\ DOMAIN local[p].args = {"newer_than"}
           /\ \E r \in entries :
                /\ r.feed_id = pfeed[p]
                /\ r.remote_id = local[p].args.newer_than
                /\ \A x \in entries :
                     x.feed_id = pfeed[p] => x.remote_updated <= r.remote_updated
      ELSE /\ DOMAIN local[p].args = {"limit"}
           /\ local[p].args.limit = MastodonFetchLimit

\* The feed has an older and a newer stored entry, and the fetch was made
\* with newer_than = the newer entry's remote id.
C18_Witness ==
  \E p \in Procs :
    /\ feeds[pfeed[p]].type = "mastodon" /\ pc[p] = "loop"
    /\ \E r, x \in entries :
         /\ r.feed_id = pfeed[p] /\ x.feed_id = pfeed[p]
         /\ x.remote_updated < r.remote_updated
         /\ x.remote_id < r.remote_id
         /\ local[p].args = [newer_than |-> r.remote_id]

\* The sync task of the rss feed has committed its feed row.
SyncCommitted(p) ==
  feeds[pfeed[p]].type = "rss" /\ pc[p] \in {"loop", "returned"}

C21_ReturnsCount ==
  \A p \in Procs :
    pc[p] = "returned" => UpsertReturnValue(p) = <<Len(done[p])>>

\* C23: Feed.freq_bucket, the sort key of the frequency-weighted query,
\* gives every count the rank the threshold chain of set_frequency_ranks
\* gives it.
C23_SameRank ==
  probe.rank # NULL => freq_bucket(probe.count) = probe.rank

\* C24: of two overlapping sync_rss_feed tasks of one feed, at most one
\* fetches the feed within a cooldown window.
C24_OneFetchPerWindow ==
  \A f \in FeedIds : netCalls[f] <= 1

\* C25: a fetch of sync_rss_feed that raises changes no feed row and no
\* entry, the task has written nothing, and the feed is not inside the
\* cooldown afterwards.
C25_FailedFetchChangesNothing ==
  [][\A p \in Procs :
       feeds[pfeed[p]].type = "rss" /\ pc[p] # "failed" /\ pc'[p] = "failed" =>
         /\ feeds' = feeds
         /\ entries' = entries
         /\ done'[p] = <<>> /\ txn'[p] = <<>>
         /\ feeds'[pfeed[p]].last_fetch = local[p].args.last_fetch
         /\ feeds'[pfeed[p]].etag = local[p].args.etag
         /\ feeds'[pfeed[p]].modified_header = local[p].args.modified
         /\ ~RecentlySynced(feeds'[pfeed[p]], now')]_vars

\* The fetch of a feed that was fetched before has failed: the row still
\* holds the previous fetch time, cache token and payload.
C25_Witness ==
  \E p \in Procs :
    /\ feeds[pfeed[p]].type = "rss" /\ pc[p] = "failed"
    /\ netCalls[pfeed[p]] = 1
    /\ feeds[pfeed[p]].last_fetch = 1 /\ feeds[pfeed[p]].etag = 1
    /\ feeds[pfeed[p]].raw_data = JsonDumps(1)
    /\ now > 1


\* The list select_pinned returned holds each row of the set once, in
\* descending pinned.
ReturnedInPinOrder(rows) ==
  /\ {pager.result[i] : i \in 1..Len(pager.result)} = rows
  /\ Len(pager.result) = Cardinality(rows)
  /\ \A i, j \in 1..Len(pager.result) :
       i < j => pager.result[i].pinned >= pager.result[j].pinned

\* C22 as stated: select_pinned returns exactly the pinned entries that pass
\* every filter given, a filter that is not given excluding nothing, in
\* descending pinned and without limit.
C22_AllPinnedAnyFilters ==
  pager.pc = "pinned" =>
    ReturnedInPinOrder(
      {r \in entries :
         /\ r.pinned # NULL
         /\ pager.flt.deleted => r.deleted # NULL
         /\ pager.flt.favorited => r.favorited # NULL
         /\ pager.flt.feed_name # NULL => r.feed_id = pager.flt.feed_name
         /\ pager.flt.folder # NULL => feeds[r.feed_id].folder = pager.flt.folder
         /\ pager.flt.username # NULL => r.username = pager.flt.username})

\* C22, amended: select_pinned returns exactly the pinned entries that pass
\* the favorited, feed name, folder and username filters given and that are
\* deleted when the deleted filter is set and not deleted when it is not set
\* or not given, in descending pinned and without limit.
C22_PinnedNotDeletedByDefault ==
  pager.pc = "pinned" =>
    ReturnedInPinOrder(
      {r \in entries :
         /\ r.pinned # NULL
         /\ IF pager.flt.deleted THEN r.deleted # NULL ELSE r.deleted = NULL
         /\ pager.flt.favorited => r.favorited # NULL
         /\ pager.flt.feed_name # NULL => r.feed_id = pager.flt.feed_name
         /\ pager.flt.folder # NULL => feeds[r.feed_id].folder = pager.flt.folder
         /\ pager.flt.username # NULL => r.username = pager.flt.username})

\* Called with the favorited and the username filter on a table of two
\* pinned entries that pass both: both are returned, the one pinned later
\* first.
C22_Witness ==
  /\ pager.pc = "pinned"
  /\ pager.flt.favorited /\ pager.flt.username # NULL /\ ~pager.flt.deleted
  /\ Len(pager.result) = 2
  /\ pager.result[1].pinned > pager.result[2].pinned
  /\ pager.result[1].id < pager.result[2].id

====
